---------------------------- MODULE Spec2Model ----------------------------
(***************************************************************************)
(* Model of the BMP header probe of BirdUp9000/bp.                         *)
(*                                                                         *)
(* Two generations of the reader live in the repository and both are       *)
(* modelled: class BP (src/include/bp/bmp_reader.hpp) and its predecessor  *)
(* class BMPINFO (src/bmp_reader.hpp).  The variable impl says which       *)
(* constructor runs.  One behaviour of the model is one constructor call   *)
(* on one input file, cut into the steps of the constructor body.          *)
(*                                                                         *)
(* Every object that the code fills with istream::read is kept as its      *)
(* memory image (a sequence of bytes, packed, little-endian host), so that *)
(* a short read, a record that is larger than the number of bytes read,    *)
(* and a field that was never written are all visible.                     *)
(***************************************************************************)
EXTENDS Integers, Sequences, FiniteSets, TLC

VARIABLES
  impl,          \* "BP" or "BMPINFO": the class whose constructor runs
  src,           \* the file named by path (never changes)
  pc,            \* position in the constructor body
  is_open,       \* the std::ifstream holds an open handle
  pos,           \* position of the stream buffer
  eofbit,        \* stream state flags
  failbit,
  file_header,   \* image of *file_header, << >> when the pointer is null
  header_size,   \* image of the local uint32_t header_size, << >> before it exists
  bitmap_header, \* [variant, image, gcount] of the wrapped record, NullHeader when null
  color_table,   \* image of *color_table, << >> when the pointer is null
  err,           \* what() of the exception that left the constructor, "" when none
  result,        \* what the last call on the constructed object gave its caller
  constructed    \* the constructor returned: the object exists for the caller

vars == <<impl, src, pc, is_open, pos, eofbit, failbit, file_header,
          header_size, bitmap_header, color_table, err, constructed, result>>

-----------------------------------------------------------------------------
(* Program constants *)

BITMAPFILEHEADERLENGTH == 14
BITMAPCOREHEADERLENGTH == 12
OS22XBITMAPHEADERLENGTH == 64
BITMAPINFOHEADERLENGTH == 40
BITMAPV2INFOHEADERLENGTH == 52
BITMAPV3INFOHEADERLENGTH == 56
BITMAPV4HEADERLENGTH == 108
BITMAPV5HEADERLENGTH == 124

\* const std::set<uint16_t> validIdentifier, with the values the source writes:
\* 0x4D42, 0x4142, 0x4349, 0x4350, 0x4943, 0x5450
validIdentifier == {19778, 16706, 17225, 17232, 18755, 21584}

-----------------------------------------------------------------------------
(* Bytes and little-endian words *)

Min(a, b) == IF a < b THEN a ELSE b

\* value of a uint16_t whose memory image is b (little-endian host)
U16(b) == b[1] + 256 * b[2]

\* memory image of the 32-bit value n, 0 <= n < 2^31
LE32(n) == <<n % 256, (n \div 256) % 256, (n \div 65536) % 256, (n \div 16777216) % 256>>


-----------------------------------------------------------------------------
(* The input: the file that path names *)

MaxSlack == 1      \* file lengths within MaxSlack bytes of every boundary are tried

\* byte values tried for the two magic bytes: NUL and the letters A B C I M P T
MagicBytes == {0, 65, 66, 67, 73, 77, 80, 84}

\* byte images tried for bytes 14..17 of the file (the DIB size tag)
SizeTags ==
  {LE32(n) : n \in {0, 12, 13, 16, 40, 52, 56, 64, 108, 124, 125}}
    \cup {<<12, 0, 0, 1>>, <<40, 1, 0, 0>>, <<124, 0, 0, 128>>, <<255, 255, 255, 255>>}

\* seeds of the filler pattern of all other bytes
Fills == {7, 200}

\* lengths that end the file around the places where the code reads
Boundaries ==
  {0, 2, BITMAPFILEHEADERLENGTH, BITMAPFILEHEADERLENGTH + 4}
    \cup {BITMAPFILEHEADERLENGTH + L :
            L \in {BITMAPCOREHEADERLENGTH, 16, OS22XBITMAPHEADERLENGTH,
                   BITMAPINFOHEADERLENGTH, BITMAPV2INFOHEADERLENGTH,
                   BITMAPV3INFOHEADERLENGTH, BITMAPV4HEADERLENGTH,
                   BITMAPV5HEADERLENGTH}}

SourceLens == {b + d : b \in Boundaries, d \in (0 - MaxSlack)..MaxSlack} \cap Nat

\* images tried together for bytes 2..9 of the file (file_size, reserved1,
\* reserved2), bytes 10..13 (the pixel-data offset), bytes 22..25 (where the
\* records keep bitmap_height) and bytes 30..33 (where the records that have
\* one keep compression): a well-formed file, and two that are not
Profiles ==
  { [info |-> <<70, 0, 0, 0, 0, 0, 0, 0>>, off |-> <<54, 0, 0, 0>>,
     hgt |-> <<2, 0, 0, 0>>, comp |-> <<0, 0, 0, 0>>],
    [info |-> <<255, 255, 255, 255, 255, 255, 255, 255>>, off |-> <<0, 0, 0, 0>>,
     hgt |-> <<254, 255, 255, 255>>, comp |-> <<7, 0, 0, 0>>],
    [info |-> <<255, 255, 255, 255, 255, 255, 255, 255>>, off |-> <<26, 0, 0, 0>>,
     hgt |-> <<0, 0, 0, 128>>, comp |-> <<13, 0, 0, 0>>] }

\* the first two bytes of the files whose fields are set one by one: BM, and NUL NUL
ProfiledMagics == {<<66, 77>>, <<0, 0>>}

\* a regular file with content, a path that names nothing, a file that cannot be
\* opened.  info, off, hgt and comp are << >> where the bytes are filler.
Sources ==
  [kind : {"file"}, len : SourceLens, m0 : MagicBytes, m1 : MagicBytes,
   tag : SizeTags, fill : Fills,
   info : {<< >>}, off : {<< >>}, hgt : {<< >>}, comp : {<< >>}]
    \cup {[kind |-> "file", len |-> n, m0 |-> m[1], m1 |-> m[2], tag |-> t, fill |-> 7,
           info |-> b.info, off |-> b.off, hgt |-> b.hgt, comp |-> b.comp] :
            n \in SourceLens, m \in ProfiledMagics, t \in SizeTags, b \in Profiles}
    \cup {[kind |-> k, len |-> 0, m0 |-> 0, m1 |-> 0, tag |-> LE32(0), fill |-> 7,
           info |-> << >>, off |-> << >>, hgt |-> << >>, comp |-> << >>] :
            k \in {"missing", "unreadable"}}

\* byte i (0-based) of the file s; every filler byte is nonzero
Byte(s, i) ==
  IF i = 0 THEN s.m0
  ELSE IF i = 1 THEN s.m1
  ELSE IF i >= 2 /\ i < 10 /\ s.info # << >> THEN s.info[i - 1]
  ELSE IF i >= 10 /\ i < BITMAPFILEHEADERLENGTH /\ s.off # << >> THEN s.off[i - 9]
  ELSE IF i >= BITMAPFILEHEADERLENGTH /\ i < BITMAPFILEHEADERLENGTH + 4
       THEN s.tag[i - BITMAPFILEHEADERLENGTH + 1]
  ELSE IF i >= BITMAPFILEHEADERLENGTH + 8 /\ i < BITMAPFILEHEADERLENGTH + 12
          /\ s.hgt # << >>
       THEN s.hgt[i - BITMAPFILEHEADERLENGTH - 7]
  ELSE IF i >= BITMAPFILEHEADERLENGTH + 16 /\ i < BITMAPFILEHEADERLENGTH + 20
          /\ s.comp # << >>
       THEN s.comp[i - BITMAPFILEHEADERLENGTH - 15]
  ELSE ((s.fill + i) % 251) + 1

\* values an indeterminate (never written) byte or 32-bit word may turn out to hold
GarbageBytes == {0, 205}
GarbageWords == SizeTags

-----------------------------------------------------------------------------
(* std::istream *)

\* basic_ios::good()
good == ~eofbit /\ ~failbit

\* number of characters istream::read(buf, n) extracts: none when the sentry
\* fails, otherwise up to the end of the file
Extracted(n) == IF is_open /\ good THEN Min(n, src.len - pos) ELSE 0

\* the object image buf after istream::read(buf, n): the extracted characters
\* overwrite its first bytes, the rest keeps what it held
ReadInto(buf, n) ==
  [j \in 1..Len(buf) |-> IF j <= Extracted(n) THEN Byte(src, pos + j - 1) ELSE buf[j]]

\* the stream after istream::read(buf, n)
StreamAfterRead(n) ==
  /\ pos' = pos + Extracted(n)
  /\ eofbit' = (eofbit \/ (good /\ Extracted(n) < n))
  /\ failbit' = (failbit \/ ~good \/ Extracted(n) < n)

\* a seek that moves the position even when the stream has failed
StreamAfterSeek_IgnoresFailure(off) ==
  /\ eofbit' = FALSE
  /\ pos' = IF pos + off >= 0 THEN pos + off ELSE pos
  /\ failbit' = (failbit \/ pos + off < 0)

\* the stream after istream::seekg(off, std::ios::cur): eofbit is cleared, and
\* the position moves unless the stream has failed; an impossible target fails it
StreamAfterSeek(off) ==
  /\ eofbit' = FALSE
  /\ pos' = IF ~failbit /\ pos + off >= 0 THEN pos + off ELSE pos
  /\ failbit' = (failbit \/ pos + off < 0)

-----------------------------------------------------------------------------
(* The packed records.  A field is [name, size in bytes, init], init saying   *)
(* whether the member has a default member initializer (= 0 / {0}).           *)

F(n, sz, i) == [name |-> n, size |-> sz, init |-> i]

\* the file header as it would lie without #pragma pack(1): file_size aligned to 4
BITMAPFILEHEADER_Unpacked ==
  << F("file_type", 2, TRUE), F("padding", 2, TRUE), F("file_size", 4, TRUE),
     F("reserved1", 2, TRUE), F("reserved2", 2, TRUE), F("offset", 4, TRUE) >>

\* class BITMAPFILEHEADER, the same in both files
BITMAPFILEHEADER ==
  << F("file_type", 2, TRUE), F("file_size", 4, TRUE), F("reserved1", 2, TRUE),
     F("reserved2", 2, TRUE), F("offset", 4, TRUE) >>

\* struct BITMAPCOREHEADER, the same in both files
BITMAPCOREHEADER ==
  << F("header_size", 4, TRUE), F("bitmap_width", 4, TRUE), F("bitmap_height", 4, TRUE),
     F("color_planes", 2, TRUE), F("bits_per_pixel", 2, TRUE) >>

\* struct OS22XBITMAPHEADER, the same members and initializers in both files
OS22XBITMAPHEADER ==
  BITMAPCOREHEADER \o
  << F("compression", 4, FALSE), F("bitmap_size", 4, TRUE), F("h_px_res", 4, TRUE),
     F("v_px_res", 4, TRUE), F("colors", 4, TRUE), F("important_colors", 4, TRUE),
     F("units", 2, TRUE), F("reserved", 2, TRUE), F("recording", 2, TRUE),
     F("rendering", 2, TRUE), F("size1", 4, TRUE), F("size2", 4, TRUE),
     F("color_encoding", 4, TRUE), F("identifier", 4, TRUE) >>

\* struct BITMAPINFOHEADER: class BP's file initializes all members but
\* compression, class BMPINFO's file none of the members it adds
BITMAPINFOHEADER(i) ==
  BITMAPCOREHEADER \o
  << F("compression", 4, FALSE), F("bitmap_size", 4, i = "BP"),
     F("x_px_per_meter", 4, i = "BP"), F("y_px_per_meter", 4, i = "BP"),
     F("colors", 4, i = "BP"), F("important_colors", 4, i = "BP") >>

BITMAPV2INFOHEADER(i) ==
  BITMAPINFOHEADER(i) \o
  << F("red_mask", 4, i = "BP"), F("green_mask", 4, i = "BP"), F("blue_mask", 4, i = "BP") >>

BITMAPV3INFOHEADER(i) ==
  BITMAPV2INFOHEADER(i) \o << F("alpha_mask", 4, i = "BP") >>

\* struct CIEXYZTRIPLE: three CIEXYZ of three FXPT2DOT30 (int32_t) each
CIEXYZTRIPLE(i) ==
  << F("endpoints.xyz_red.xyz_x", 4, i = "BP"), F("endpoints.xyz_red.xyz_y", 4, i = "BP"),
     F("endpoints.xyz_red.xyz_z", 4, i = "BP"), F("endpoints.xyz_green.xyz_x", 4, i = "BP"),
     F("endpoints.xyz_green.xyz_y", 4, i = "BP"), F("endpoints.xyz_green.xyz_z", 4, i = "BP"),
     F("endpoints.xyz_blue.xyz_x", 4, i = "BP"), F("endpoints.xyz_blue.xyz_y", 4, i = "BP"),
     F("endpoints.xyz_blue.xyz_z", 4, i = "BP") >>

BITMAPV4HEADER(i) ==
  BITMAPV3INFOHEADER(i) \o << F("type", 4, i = "BP") >> \o CIEXYZTRIPLE(i) \o
  << F("gamma_red", 4, i = "BP"), F("gamma_green", 4, i = "BP"), F("gamma_blue", 4, i = "BP") >>

BITMAPV5HEADER(i) ==
  BITMAPV4HEADER(i) \o
  << F("intent", 4, i = "BP"), F("profile_data", 4, i = "BP"),
     F("profile_size", 4, i = "BP"), F("reserved", 4, i = "BP") >>

\* the members of the record type named v, as declared in the file of class i
Fields(i, v) ==
  CASE v = "BITMAPFILEHEADER" -> BITMAPFILEHEADER
    [] v = "BITMAPCOREHEADER" -> BITMAPCOREHEADER
    [] v = "OS22XBITMAPHEADER" -> OS22XBITMAPHEADER
    [] v = "BITMAPINFOHEADER" -> BITMAPINFOHEADER(i)
    [] v = "BITMAPV2INFOHEADER" -> BITMAPV2INFOHEADER(i)
    [] v = "BITMAPV3INFOHEADER" -> BITMAPV3INFOHEADER(i)
    [] v = "BITMAPV4HEADER" -> BITMAPV4HEADER(i)
    [] v = "BITMAPV5HEADER" -> BITMAPV5HEADER(i)

RECURSIVE SumSizes(_, _)
\* total size of the first k fields of fs: the offset of field k + 1 under pack(1)
SumSizes(fs, k) == IF k = 0 THEN 0 ELSE SumSizes(fs, k - 1) + fs[k].size

\* sizeof of a packed record
SizeOf(fs) == SumSizes(fs, Len(fs))

RECURSIVE DefaultPrefix(_, _, _)
\* image of the first k members of a default-initialized record: zero where the
\* member has an initializer, the indeterminate byte g elsewhere
DefaultPrefix(fs, k, g) ==
  IF k = 0 THEN << >>
  ELSE DefaultPrefix(fs, k - 1, g) \o [j \in 1..fs[k].size |-> IF fs[k].init THEN 0 ELSE g]

\* image of a default-initialized record (T tmp;)
DefaultImage(fs, g) == DefaultPrefix(fs, Len(fs), g)

\* index of the field called n
FieldIndex(fs, n) == CHOOSE k \in 1..Len(fs) : fs[k].name = n

\* image of member n inside the record image img
Member(fs, img, n) ==
  SubSeq(img, SumSizes(fs, FieldIndex(fs, n) - 1) + 1, SumSizes(fs, FieldIndex(fs, n)))

-----------------------------------------------------------------------------
(* operator<< of std::ostream on the integer members.  Text is a sequence of  *)
(* character codes.                                                           *)

RECURSIVE Rem(_, _, _)
\* remainder by base of the number held in bytes k..Len(b) of the little-endian b
Rem(b, k, base) == IF k > Len(b) THEN 0 ELSE (Rem(b, k + 1, base) * 256 + b[k]) % base

\* quotient by base of the little-endian unsigned b, as many bytes as b
Quot(b, base) == [k \in 1..Len(b) |-> (Rem(b, k + 1, base) * 256 + b[k]) \div base]

\* the character of digit d: '0'..'9', 'a'..'f'
DigitChar(d) == IF d < 10 THEN 48 + d ELSE 87 + d

RECURSIVE Digits(_, _)
\* the digits of the little-endian unsigned b, most significant first, none for 0
Digits(b, base) ==
  IF \A k \in 1..Len(b) : b[k] = 0 THEN << >>
  ELSE Append(Digits(Quot(b, base), base), DigitChar(Rem(b, 1, base)))

\* os << u for an unsigned u of any width, under std::dec (base 10) or std::hex
Numeral(b, base) == IF Digits(b, base) = << >> THEN <<48>> ELSE Digits(b, base)

\* one line of output: the label written before the value, and the value's text
Line(l, t) == [label |-> l, text |-> t]

\* BITMAPFILEHEADER::operator<<
FileHeaderText(fh) ==
  << Line("File Type", Numeral(Member(BITMAPFILEHEADER, fh, "file_type"), 16)),
     Line("File Size", Numeral(Member(BITMAPFILEHEADER, fh, "file_size"), 10)),
     Line("Reserved 1", Numeral(Member(BITMAPFILEHEADER, fh, "reserved1"), 10)),
     Line("Reserved 2", Numeral(Member(BITMAPFILEHEADER, fh, "reserved2"), 10)),
     Line("Offset", Numeral(Member(BITMAPFILEHEADER, fh, "offset"), 10)) >>

\* BITMAPCOREHEADER::operator<< (class BMPINFO: BITMAPCOREHEADERWRAPPER's, which
\* writes the header size under std::hex) on the record image img
CoreText(i, img) ==
  << Line("Header size",
          Numeral(Member(BITMAPCOREHEADER, img, "header_size"), IF i = "BP" THEN 10 ELSE 16)),
     Line("Bitmap width", Numeral(Member(BITMAPCOREHEADER, img, "bitmap_width"), 10)),
     Line("Bitmap height", Numeral(Member(BITMAPCOREHEADER, img, "bitmap_height"), 10)),
     Line("Color planes", Numeral(Member(BITMAPCOREHEADER, img, "color_planes"), 10)),
     Line("Bits per pixel", Numeral(Member(BITMAPCOREHEADER, img, "bits_per_pixel"), 10)) >>

-----------------------------------------------------------------------------
(* The DIB header factory's switch *)

Variants ==
  {"BITMAPCOREHEADER", "OS22XBITMAPHEADER", "BITMAPINFOHEADER", "BITMAPV2INFOHEADER",
   "BITMAPV3INFOHEADER", "BITMAPV4HEADER", "BITMAPV5HEADER"}

\* the switch with the labels of the 52- and 56-byte cases exchanged
VariantOfSize_SwappedCases(hs) ==
  CASE hs = LE32(BITMAPCOREHEADERLENGTH) -> "BITMAPCOREHEADER"
    [] hs = LE32(OS22XBITMAPHEADERLENGTH) -> "OS22XBITMAPHEADER"
    [] hs = LE32(BITMAPINFOHEADERLENGTH) -> "BITMAPINFOHEADER"
    [] hs = LE32(BITMAPV3INFOHEADERLENGTH) -> "BITMAPV2INFOHEADER"
    [] hs = LE32(BITMAPV2INFOHEADERLENGTH) -> "BITMAPV3INFOHEADER"
    [] hs = LE32(BITMAPV4HEADERLENGTH) -> "BITMAPV4HEADER"
    [] hs = LE32(BITMAPV5HEADERLENGTH) -> "BITMAPV5HEADER"
    [] OTHER -> "none"

\* the switch on a header_size narrowed to its low byte (uint8_t header_size)
VariantOfSize_LowByte(hs) ==
  CASE hs[1] = BITMAPCOREHEADERLENGTH -> "BITMAPCOREHEADER"
    [] hs[1] = OS22XBITMAPHEADERLENGTH -> "OS22XBITMAPHEADER"
    [] hs[1] = BITMAPINFOHEADERLENGTH -> "BITMAPINFOHEADER"
    [] hs[1] = BITMAPV2INFOHEADERLENGTH -> "BITMAPV2INFOHEADER"
    [] hs[1] = BITMAPV3INFOHEADERLENGTH -> "BITMAPV3INFOHEADER"
    [] hs[1] = BITMAPV4HEADERLENGTH -> "BITMAPV4HEADER"
    [] hs[1] = BITMAPV5HEADERLENGTH -> "BITMAPV5HEADER"
    [] OTHER -> "none"

\* the record type the switch selects for the value whose image is hs, "none"
\* for the default label
VariantOfSize(hs) ==
  CASE hs = LE32(BITMAPCOREHEADERLENGTH) -> "BITMAPCOREHEADER"
    [] hs = LE32(OS22XBITMAPHEADERLENGTH) -> "OS22XBITMAPHEADER"
    [] hs = LE32(BITMAPINFOHEADERLENGTH) -> "BITMAPINFOHEADER"
    [] hs = LE32(BITMAPV2INFOHEADERLENGTH) -> "BITMAPV2INFOHEADER"
    [] hs = LE32(BITMAPV3INFOHEADERLENGTH) -> "BITMAPV3INFOHEADER"
    [] hs = LE32(BITMAPV4HEADERLENGTH) -> "BITMAPV4HEADER"
    [] hs = LE32(BITMAPV5HEADERLENGTH) -> "BITMAPV5HEADER"
    [] OTHER -> "none"

\* the count each case passes to file.read
ReadLength(v) ==
  CASE v = "BITMAPCOREHEADER" -> BITMAPCOREHEADERLENGTH
    [] v = "OS22XBITMAPHEADER" -> OS22XBITMAPHEADERLENGTH
    [] v = "BITMAPINFOHEADER" -> BITMAPINFOHEADERLENGTH
    [] v = "BITMAPV2INFOHEADER" -> BITMAPV2INFOHEADERLENGTH
    [] v = "BITMAPV3INFOHEADER" -> BITMAPV3INFOHEADERLENGTH
    [] v = "BITMAPV4HEADER" -> BITMAPV4HEADERLENGTH
    [] v = "BITMAPV5HEADER" -> BITMAPV5HEADERLENGTH

\* the default-initialized temporaries of the switch, by class, record type
\* and indeterminate byte
TmpImages ==
  [i \in {"BP", "BMPINFO"}, v \in Variants, g \in GarbageBytes |->
     DefaultImage(Fields(i, v), g)]

\* std::unique_ptr<HeaderInterface> holding nothing
NullHeader == [variant |-> "none", image |-> << >>, gcount |-> 0]

-----------------------------------------------------------------------------
(* The file header *)

\* a validity test that also wants the reserved fields to be zero
isValid_ReservedZero(fh) ==
  /\ U16(Member(BITMAPFILEHEADER, fh, "file_type")) \in validIdentifier
  /\ Member(BITMAPFILEHEADER, fh, "reserved1") = <<0, 0>>
  /\ Member(BITMAPFILEHEADER, fh, "reserved2") = <<0, 0>>

\* BITMAPFILEHEADER::isValid on the image fh
isValid(fh) == U16(Member(BITMAPFILEHEADER, fh, "file_type")) \in validIdentifier

\* result before any call on the object
NoResult == [op |-> "none", arg |-> 0, value |-> << >>, fault |-> FALSE]

\* what() of the exceptions, by class
MsgNoFile(i) == "File does not exist"
MsgOpen(i) == IF i = "BP" THEN "Error reading BITMAP FILE HEADER" ELSE "Failed to open the file"
MsgRead(i) == "Error reading BITMAPFILEHEADER"
MsgMagic(i) == IF i = "BP" THEN "Not a valid BMP file" ELSE "Not a BMP file"
MsgFactory(i) == "Error reading BITMAP HEADER"
MsgSize(i) == "Invalid header size"

-----------------------------------------------------------------------------
(* The constructor, BP::BP(path) or BMPINFO::BMPINFO(path)                  *)

Init ==
  /\ impl \in {"BP", "BMPINFO"}
  /\ src \in Sources
  /\ pc = "Start"
  /\ is_open = FALSE
  /\ pos = 0
  /\ eofbit = FALSE
  /\ failbit = FALSE
  /\ file_header = << >>
  /\ header_size = << >>
  /\ bitmap_header = NullHeader
  /\ color_table = << >>
  /\ err = ""
  /\ constructed = FALSE
  /\ result = NoResult

\* a failure after which the constructor starts over on the open stream
Throw_Retry(msg) ==
  /\ pc' = "Opened"
  /\ err' = msg
  /\ is_open' = TRUE
  /\ file_header' = << >>
  /\ bitmap_header' = NullHeader
  /\ color_table' = << >>
  /\ constructed' = FALSE

\* a failure that unwinds without closing the stream
Throw_LeakHandle(msg) ==
  /\ pc' = "Failed"
  /\ err' = msg
  /\ UNCHANGED is_open
  /\ file_header' = << >>
  /\ bitmap_header' = NullHeader
  /\ color_table' = << >>
  /\ constructed' = FALSE

\* a failure that is recorded while the members built so far stay in place
Throw_KeepMembers(msg) ==
  /\ pc' = "Failed"
  /\ err' = msg
  /\ is_open' = FALSE
  /\ UNCHANGED <<file_header, bitmap_header, color_table>>
  /\ constructed' = FALSE

\* throw std::runtime_error(msg) out of the constructor: the local ifstream is
\* destroyed (closing the handle) and so are the members built so far
Throw(msg) ==
  /\ pc' = "Failed"
  /\ err' = msg
  /\ is_open' = FALSE
  /\ file_header' = << >>
  /\ bitmap_header' = NullHeader
  /\ color_table' = << >>
  /\ constructed' = FALSE

\* exists(path), std::ifstream file(path, std::ios::binary) and the test that
\* the stream is usable
Open ==
  /\ pc = "Start"
  /\ IF src.kind = "missing"
       THEN /\ Throw(MsgNoFile(impl))
            /\ UNCHANGED <<failbit>>
       ELSE IF src.kind = "unreadable"
       THEN /\ Throw(MsgOpen(impl))
            /\ failbit' = TRUE
       ELSE /\ pc' = "Opened"
            /\ is_open' = TRUE
            /\ UNCHANGED <<failbit, file_header, bitmap_header, color_table, err,
                           constructed>>
  /\ UNCHANGED <<result, impl, src, pos, eofbit, header_size>>

\* file_header = std::make_unique<BITMAPFILEHEADER>(); file.read(file_header.get(),
\* BITMAPFILEHEADERLENGTH); class BMPINFO then throws if (!file)
ReadFileHeader ==
  /\ pc = "Opened"
  /\ StreamAfterRead(BITMAPFILEHEADERLENGTH)
  /\ IF impl = "BMPINFO" /\ Extracted(BITMAPFILEHEADERLENGTH) < BITMAPFILEHEADERLENGTH
       THEN Throw(MsgRead(impl))
       ELSE /\ pc' = "FileHeaderRead"
            /\ file_header' =
                 ReadInto(DefaultImage(BITMAPFILEHEADER, 0), BITMAPFILEHEADERLENGTH)
            /\ UNCHANGED <<is_open, bitmap_header, color_table, err, constructed>>
  /\ UNCHANGED <<result, impl, src, header_size>>

\* if (!file_header->isValid()) throw
ValidateMagic ==
  /\ pc = "FileHeaderRead"
  /\ IF isValid(file_header)
       THEN /\ pc' = "FileHeaderParsed"
            /\ UNCHANGED <<is_open, file_header, bitmap_header, color_table, err,
                           constructed>>
       ELSE Throw(MsgMagic(impl))
  /\ UNCHANGED <<result, impl, src, pos, eofbit, failbit, header_size>>

\* createBitmapHeader: uint32_t header_size; file.read(&header_size, 4).  Bytes
\* of header_size that the read does not write are indeterminate.  Class
\* BMPINFO's factory first throws if (!file).
PeekSize ==
  /\ pc = "FileHeaderParsed"
  /\ IF impl = "BMPINFO" /\ failbit
       THEN /\ Throw(MsgFactory(impl))
            /\ UNCHANGED <<pos, eofbit, failbit, header_size>>
       ELSE /\ pc' = "SizePeeked"
            /\ StreamAfterRead(4)
            /\ \E w \in GarbageWords : header_size' = ReadInto(w, 4)
            /\ UNCHANGED <<is_open, file_header, bitmap_header, color_table, err,
                           constructed>>
  /\ UNCHANGED <<result, impl, src>>

\* file.seekg(-4, std::ios::cur)
SeekBack ==
  /\ pc = "SizePeeked"
  /\ pc' = "SoughtBack"
  /\ StreamAfterSeek(0 - 4)
  /\ UNCHANGED <<result, impl, src, is_open, file_header, header_size, bitmap_header,
                 color_table, err, constructed>>

\* switch (header_size): the selected case default-initializes tmp, reads the
\* case's length into it and wraps it; the result is moved into bitmap_header.
\* The default label throws.
ReadDibRecord ==
  /\ pc = "SoughtBack"
  /\ LET v == VariantOfSize(header_size) IN
       IF v = "none"
         THEN /\ Throw(MsgSize(impl))
              /\ UNCHANGED <<pos, eofbit, failbit>>
         ELSE /\ pc' = "DibHeaderParsed"
              /\ StreamAfterRead(ReadLength(v))
              /\ \E g \in GarbageBytes :
                   bitmap_header' =
                     [variant |-> v,
                      image |-> ReadInto(TmpImages[impl, v, g], ReadLength(v)),
                      gcount |-> Extracted(ReadLength(v))]
              /\ UNCHANGED <<is_open, file_header, color_table, err, constructed>>
  /\ UNCHANGED <<result, impl, src, header_size>>

\* a constructor that makes the colour table before it closes the file
Finish_CreatesColorTable ==
  /\ pc = "DibHeaderParsed"
  /\ pc' = "Done"
  /\ is_open' = FALSE
  /\ constructed' = TRUE
  /\ color_table' = <<0, 0, 0>>
  /\ UNCHANGED <<result, impl, src, pos, eofbit, failbit, file_header, header_size,
                 bitmap_header, err>>

\* file.close(); the constructor returns
Finish ==
  /\ pc = "DibHeaderParsed"
  /\ pc' = "Done"
  /\ is_open' = FALSE
  /\ constructed' = TRUE
  /\ UNCHANGED <<result, impl, src, pos, eofbit, failbit, file_header, header_size,
                 bitmap_header, color_table, err>>

-----------------------------------------------------------------------------
(* What a caller can do with a constructed object.  A call is enabled only   *)
(* on an object: a constructor that threw left none.  Calls do not overlap:   *)
(* each returns, and its caller uses what it gave, before the next is made.   *)

\* the getters of class BITMAPFILEHEADER and the member each returns
FileHeaderGetters ==
  [getFileType |-> "file_type", getFileSize |-> "file_size", getReserved1 |-> "reserved1",
   getReserved2 |-> "reserved2", getOffset |-> "offset"]

\* a record type declares a member called n
HasMember(fs, n) == \E k \in 1..Len(fs) : fs[k].name = n

\* the lines that bitmap_header->operator<<(oss) writes for the members of
\* BITMAPCOREHEADER and for compression.  In class BP every record writes
\* prev_header first.  In class BMPINFO the wrappers other than
\* BITMAPCOREHEADERWRAPPER call the base wrapper, whose own header they never
\* fill: it holds what its member initializers give.
HeaderText(i, bh) ==
  CoreText(i, IF i = "BP" \/ bh.variant = "BITMAPCOREHEADER"
                THEN bh.image
                ELSE DefaultImage(BITMAPCOREHEADER, 0))
  \o IF HasMember(Fields(i, bh.variant), "compression")
       THEN << Line("Compression",
                    Numeral(Member(Fields(i, bh.variant), bh.image, "compression"), 10)) >>
       ELSE << >>

\* what os << p writes for a pointer p: an address
AddressText == << Line("", <<48, 120>>) >>

\* the values of bitsPerPixel that callers pass to createColorTable
BitDepths == {4, 16, 24, 32}

\* what a call of class BMPINFO's createColorTable can give: control flows off
\* the end of the function, so it may return the empty table, return a
\* pointer to anything, or not return
FlowsOffTheEnd ==
  {[value |-> << >>, fault |-> f] : f \in BOOLEAN}
    \cup {[value |-> <<g>>, fault |-> FALSE] : g \in GarbageBytes \ {0}}

\* a getter that hands the file header over and leaves the object without one
getFileHeader_Release ==
  /\ constructed /\ result = NoResult
  /\ result' = [op |-> "getFileHeader", arg |-> 0, value |-> file_header, fault |-> FALSE]
  /\ file_header' = << >>
  /\ UNCHANGED <<impl, src, pc, is_open, pos, eofbit, failbit,
                 header_size, bitmap_header, color_table, err, constructed>>

\* const std::unique_ptr<BITMAPFILEHEADER>& getFileHeader() const
getFileHeader ==
  /\ constructed /\ result = NoResult
  /\ result' = [op |-> "getFileHeader", arg |-> 0, value |-> file_header, fault |-> FALSE]
  /\ UNCHANGED <<impl, src, pc, is_open, pos, eofbit, failbit, file_header,
                 header_size, bitmap_header, color_table, err, constructed>>

\* const std::unique_ptr<HeaderInterface>& getBitmapHeader() const
getBitmapHeader ==
  /\ constructed /\ result = NoResult
  /\ result' = [op |-> "getBitmapHeader", arg |-> 0, value |-> bitmap_header.image,
                fault |-> FALSE]
  /\ UNCHANGED <<impl, src, pc, is_open, pos, eofbit, failbit, file_header,
                 header_size, bitmap_header, color_table, err, constructed>>

\* const std::unique_ptr<ColorInterface>& getColorTable() const
getColorTable ==
  /\ constructed /\ result = NoResult
  /\ result' = [op |-> "getColorTable", arg |-> 0, value |-> color_table, fault |-> FALSE]
  /\ UNCHANGED <<impl, src, pc, is_open, pos, eofbit, failbit, file_header,
                 header_size, bitmap_header, color_table, err, constructed>>

\* getFileHeader()->getFileType() and the other four getters
FileHeaderGet ==
  /\ constructed /\ result = NoResult
  /\ \E g \in DOMAIN FileHeaderGetters :
       result' = [op |-> g, arg |-> 0,
                  value |-> Member(BITMAPFILEHEADER, file_header, FileHeaderGetters[g]),
                  fault |-> FALSE]
  /\ UNCHANGED <<impl, src, pc, is_open, pos, eofbit, failbit, file_header,
                 header_size, bitmap_header, color_table, err, constructed>>

\* operator<< of the class: BP's writes both headers, BMPINFO's writes the two
\* pointers
StreamOut ==
  /\ constructed /\ result = NoResult
  /\ result' = [op |-> "operator<<", arg |-> 0,
                value |-> IF impl = "BP"
                            THEN FileHeaderText(file_header)
                                   \o HeaderText(impl, bitmap_header)
                            ELSE AddressText \o AddressText,
                fault |-> FALSE]
  /\ UNCHANGED <<impl, src, pc, is_open, pos, eofbit, failbit, file_header,
                 header_size, bitmap_header, color_table, err, constructed>>

\* getBitmapHeader()->operator<<(oss)
HeaderStreamOut ==
  /\ constructed /\ result = NoResult
  /\ result' = [op |-> "HeaderInterface::operator<<", arg |-> 0,
                value |-> HeaderText(impl, bitmap_header), fault |-> FALSE]
  /\ UNCHANGED <<impl, src, pc, is_open, pos, eofbit, failbit, file_header,
                 header_size, bitmap_header, color_table, err, constructed>>

\* ColorTableFactory::createColorTable(bitsPerPixel), called by the holder of
\* an object (the constructors do not call it): both branches on bitsPerPixel
\* are empty, and class BP's returns the table it made
createColorTable ==
  /\ constructed /\ result = NoResult
  /\ \E bitsPerPixel \in BitDepths :
       \E r \in IF impl = "BP" THEN {[value |-> << >>, fault |-> FALSE]} ELSE FlowsOffTheEnd :
         result' = [op |-> "createColorTable", arg |-> bitsPerPixel,
                    value |-> r.value, fault |-> r.fault]
  /\ UNCHANGED <<impl, src, pc, is_open, pos, eofbit, failbit, file_header,
                 header_size, bitmap_header, color_table, err, constructed>>

\* the call has returned and the caller is done with what it gave
Return ==
  /\ result # NoResult
  /\ result' = NoResult
  /\ UNCHANGED <<impl, src, pc, is_open, pos, eofbit, failbit, file_header,
                 header_size, bitmap_header, color_table, err, constructed>>

Next ==
  \/ Open
  \/ ReadFileHeader
  \/ ValidateMagic
  \/ PeekSize
  \/ SeekBack
  \/ ReadDibRecord
  \/ Finish
  \/ getFileHeader
  \/ getBitmapHeader
  \/ getColorTable
  \/ FileHeaderGet
  \/ StreamOut
  \/ HeaderStreamOut
  \/ createColorTable
  \/ Return

Spec == Init /\ [][Next]_vars

-----------------------------------------------------------------------------
(* Vocabulary of the properties *)

\* the six tags as two ASCII characters in file order: BM BA CI CP IC PT
AsciiTags == {<<66, 77>>, <<66, 65>>, <<67, 73>>, <<67, 80>>, <<73, 67>>, <<80, 84>>}

\* the first two bytes of the file
Prefix == <<src.m0, src.m1>>

\* the file holds a whole file header, and a whole size tag behind it
HasFileHeader == src.kind = "file" /\ src.len >= BITMAPFILEHEADERLENGTH
HasSizeTag == src.kind = "file" /\ src.len >= BITMAPFILEHEADERLENGTH + 4

\* the constructor has left the magic test, the factory's switch, the constructor
PastValidation == pc \notin {"Start", "Opened", "FileHeaderRead"}
PastDispatch ==
  pc \in {"DibHeaderParsed", "Done"} \/ (pc = "Failed" /\ header_size # << >>)
Terminal == pc \in {"Done", "Failed"}

\* the record type that a size tag selects according to the table 12 Core,
\* 64 OS22X, 40 Info, 52 V2, 56 V3, 108 V4, 124 V5, "none" for any other tag
TableVariant(t) ==
  CASE t = <<12, 0, 0, 0>> -> "BITMAPCOREHEADER"
    [] t = <<64, 0, 0, 0>> -> "OS22XBITMAPHEADER"
    [] t = <<40, 0, 0, 0>> -> "BITMAPINFOHEADER"
    [] t = <<52, 0, 0, 0>> -> "BITMAPV2INFOHEADER"
    [] t = <<56, 0, 0, 0>> -> "BITMAPV3INFOHEADER"
    [] t = <<108, 0, 0, 0>> -> "BITMAPV4HEADER"
    [] t = <<124, 0, 0, 0>> -> "BITMAPV5HEADER"
    [] OTHER -> "none"

\* the declared length of the record type v
TableLength(v) ==
  CASE v = "BITMAPCOREHEADER" -> 12
    [] v = "OS22XBITMAPHEADER" -> 64
    [] v = "BITMAPINFOHEADER" -> 40
    [] v = "BITMAPV2INFOHEADER" -> 52
    [] v = "BITMAPV3INFOHEADER" -> 56
    [] v = "BITMAPV4HEADER" -> 108
    [] v = "BITMAPV5HEADER" -> 124
    [] OTHER -> 0

\* the exception reports a read that ended early
IsTruncationError == err \in {MsgRead(impl), MsgFactory(impl)}

-----------------------------------------------------------------------------
(* C1 .. C10 *)

\* C1 (as claimed): a file with a whole file header whose first two bytes are
\* one of the six tags BM BA CI CP IC PT, in file order, passes the magic
\* test: once the test has run, the constructor has not failed with the
\* invalid-magic error.
C1_MagicAcceptance ==
  (HasFileHeader /\ Prefix \in AsciiTags /\ PastValidation)
    => err # MsgMagic(impl)

\* C2 (as claimed): a file with a whole file header whose first two bytes are
\* not one of the six tags ends with the invalid-magic error and no object.
C2_MagicRejection ==
  (HasFileHeader /\ Prefix \notin AsciiTags /\ PastValidation)
    => (pc = "Failed" /\ err = MsgMagic(impl) /\ ~constructed)

\* C3: on a file with a valid file header and a whole size tag, the switch
\* selects Core, OS22X, Info, V2, V3, V4, V5 for the tags 12, 64, 40, 52, 56,
\* 108, 124, and no record type for any other tag.
C3_VariantSelection ==
  (HasSizeTag /\ PastDispatch) => bitmap_header.variant = TableVariant(src.tag)

\* a V5 header was selected and the constructor returned; an unlisted tag
\* selected nothing
C3_Witness ==
  /\ pc = "Done"
  /\ src.tag = <<124, 0, 0, 0>>
  /\ bitmap_header.variant = "BITMAPV5HEADER"
  /\ src.len >= BITMAPFILEHEADERLENGTH + 124

\* C4 (as claimed): whenever the factory returns a header for a size tag that
\* it read from the file and that declares the length L, the stream is
\* positioned at 14 + L.
C4_CursorAfterDispatch ==
  (HasSizeTag /\ pc \in {"DibHeaderParsed", "Done"})
    => pos = BITMAPFILEHEADERLENGTH + TableLength(TableVariant(src.tag))

\* C5 (as claimed): a size tag of 16 in a file that holds those 16 bytes is
\* accepted as a Core record whose trailing fields are zero, and the stream
\* is left at 14 + 16.
C5_SizeTag16 ==
  (src.kind = "file" /\ src.len >= BITMAPFILEHEADERLENGTH + 16
     /\ src.tag = <<16, 0, 0, 0>> /\ PastDispatch)
    => /\ pc # "Failed"
       /\ bitmap_header.variant = "BITMAPCOREHEADER"
       /\ bitmap_header.gcount = 16
       /\ \A j \in 17..Len(bitmap_header.image) : bitmap_header.image[j] = 0
       /\ pos = BITMAPFILEHEADERLENGTH + 16

\* C6: when the size tag read from the file is none of the recognised sizes,
\* the factory throws "Invalid header size": no record is read (the stream
\* stays at 14), no record type is selected, and no object is built.  Stated
\* for every tag outside the seven sizes of the switch, 16 included.
C6_UnknownSizeFatal ==
  (HasSizeTag /\ PastDispatch /\ TableVariant(src.tag) = "none")
    => /\ pc = "Failed"
       /\ err = MsgSize(impl)
       /\ bitmap_header = NullHeader
       /\ pos = BITMAPFILEHEADERLENGTH
       /\ ~constructed

\* a tag whose low byte is 12 but whose value is not 12 was refused
C6_Witness ==
  /\ pc = "Failed"
  /\ err = MsgSize(impl)
  /\ src.tag = <<12, 0, 0, 1>>
  /\ header_size = src.tag
  /\ src.len >= BITMAPFILEHEADERLENGTH + 12

\* C7 (as claimed): when the constructor fails on an unrecognised size tag,
\* the file header parsed before the failure is still there for the caller.
C7_PartialResultsSurvive ==
  (pc = "Failed" /\ err = MsgSize(impl)) => file_header # << >>

\* C7 (amended): when the constructor fails on an unrecognised size tag, it
\* is left by the exception: no object exists, the file header built before
\* the failure is destroyed with it, the stream is closed, and the caller
\* holds the error message alone.
C7_NothingSurvives ==
  (pc = "Failed" /\ err = MsgSize(impl))
    => /\ ~constructed
       /\ file_header = << >>
       /\ bitmap_header = NullHeader
       /\ ~is_open

\* the failure on an unrecognised tag of a file with a valid, whole file header
C7_Witness ==
  /\ pc = "Failed"
  /\ err = MsgSize(impl)
  /\ HasSizeTag
  /\ Prefix = <<66, 77>>
  /\ header_size = <<13, 0, 0, 0>>

\* C8 (as claimed): a file of 0..13 bytes fails at the file-header read with
\* a truncation error; the factory is not entered and no object is built.
C8_TruncatedFileHeader ==
  (src.kind = "file" /\ src.len < BITMAPFILEHEADERLENGTH /\ pc \notin {"Start", "Opened"})
    => (pc = "Failed" /\ IsTruncationError /\ header_size = << >> /\ ~constructed)

\* C9 (as claimed): a file with a valid file header that ends before the size
\* tag, or before the declared header length, is complete fails with a
\* truncation error and yields no object.
C9_TruncatedDibHeader ==
  (/\ HasFileHeader
   /\ Prefix \in AsciiTags
   /\ U16(Prefix) \in validIdentifier
   /\ \/ ~HasSizeTag
      \/ /\ TableVariant(src.tag) # "none"
         /\ src.len < BITMAPFILEHEADERLENGTH + TableLength(TableVariant(src.tag))
   /\ Terminal)
    => (pc = "Failed" /\ IsTruncationError /\ ~constructed)

\* C10 (as claimed): after a successful parse of a file that holds the whole
\* declared header, the record that was filled is as large as the declared
\* length and every byte of it was read from the file.
C10_RecordSizeIsLength ==
  (/\ pc = "Done"
   /\ HasSizeTag
   /\ src.len >= BITMAPFILEHEADERLENGTH + TableLength(TableVariant(src.tag)))
    => /\ Len(bitmap_header.image) = TableLength(bitmap_header.variant)
       /\ bitmap_header.gcount = Len(bitmap_header.image)
       /\ \A j \in 1..Len(bitmap_header.image) :
            bitmap_header.image[j] = Byte(src, BITMAPFILEHEADERLENGTH + j - 1)

-----------------------------------------------------------------------------
(* Signed values *)

RECURSIVE Carry(_, _)
\* the carry into byte k when 1 is added to the complement of b
Carry(b, k) == IF k = 1 THEN 1 ELSE (255 - b[k - 1] + Carry(b, k - 1)) \div 256

\* the magnitude of the negative two's complement number b
Negated(b) == [k \in 1..Len(b) |-> (255 - b[k] + Carry(b, k)) % 256]

\* the text of b read as a signed integer: a minus sign and the magnitude when
\* the top bit is set
SignedNumeral(b) ==
  IF b[Len(b)] >= 128 THEN <<45>> \o Numeral(Negated(b), 10) ELSE Numeral(b, 10)

\* the stored bitmap_height member of the wrapped record
StoredHeight == Member(BITMAPCOREHEADER, bitmap_header.image, "bitmap_height")

\* the text of the line with label l in the lines t
TextOf(t, l) == t[CHOOSE k \in 1..Len(t) : t[k].label = l].text

\* the last call wrote the members of the wrapped record itself
WroteStoredRecord ==
  /\ result.op \in {"operator<<", "HeaderInterface::operator<<"}
  /\ \E k \in 1..Len(result.value) : result.value[k].label = "Bitmap height"
  /\ impl = "BP" \/ bitmap_header.variant = "BITMAPCOREHEADER"

\* C11 (as claimed): whenever the height of a parsed header is written out, the
\* text is the signed 32-bit reading of the stored field (FE FF FF FF is
\* written as -2).
C11_SignedHeight ==
  WroteStoredRecord => TextOf(result.value, "Bitmap height") = SignedNumeral(StoredHeight)

-----------------------------------------------------------------------------
(* The outcome of a parse as a function of everything but bytes 2..9 *)

\* what a caller can tell of a finished parse: success or which failure, the
\* variant selected and where the stream stood
Outcome == <<pc, err, bitmap_header.variant, pos>>

\* the outcome of class i on a file of n bytes that starts with m0, m1 and has
\* the bytes t at 14..17, the indeterminate header_size bytes being w.  Bytes
\* 2..9 of the file are not among the arguments.
OutcomeOf(i, n, m0, m1, t, w) ==
  LET e0 == Min(BITMAPFILEHEADERLENGTH, n)
      type == (IF n >= 1 THEN m0 ELSE 0) + 256 * (IF n >= 2 THEN m1 ELSE 0)
      e1 == IF e0 < BITMAPFILEHEADERLENGTH THEN 0 ELSE Min(4, n - e0)
      hs == [j \in 1..4 |-> IF j <= e1 THEN t[j] ELSE w[j]]
      p1 == IF e1 = 4 THEN e0 ELSE e0 + e1
      v == VariantOfSize(hs)
      e2 == IF e1 = 4 THEN Min(ReadLength(v), n - p1) ELSE 0
  IN  IF i = "BMPINFO" /\ e0 < BITMAPFILEHEADERLENGTH THEN <<"Failed", MsgRead(i), "none", e0>>
      ELSE IF type \notin validIdentifier THEN <<"Failed", MsgMagic(i), "none", e0>>
      ELSE IF v = "none" THEN <<"Failed", MsgSize(i), "none", p1>>
      ELSE <<"Done", "", v, p1 + e2>>

\* bytes 2..9 of the file: file_size, reserved1, reserved2
InfoBytes == [j \in 1..8 |-> Byte(src, j + 1)]

\* C12: the outcome of a finished parse (success or which failure, variant,
\* final position) is a function of the class, the file's length, its bytes 0-1
\* and 14..17 and the indeterminate bytes alone, so two files that differ only
\* in bytes 2..9 end alike whatever their length; an object that exists holds
\* bytes 2..9 unchanged in its file header, whatever they are.
C12_InfoDoesNotSteer ==
  /\ (Terminal /\ src.kind = "file") =>
       \E w \in GarbageWords :
         Outcome = OutcomeOf(impl, src.len, src.m0, src.m1, src.tag, w)
  /\ (constructed /\ HasFileHeader) => SubSeq(file_header, 3, 10) = InfoBytes

\* a file whose file_size says 4294967295 and whose reserved fields are 65535
\* was parsed to an INFO header, and getFileSize() returned the bytes as they
\* stand in the file
C12_Witness ==
  /\ pc = "Done"
  /\ src.info = <<255, 255, 255, 255, 255, 255, 255, 255>>
  /\ bitmap_header.variant = "BITMAPINFOHEADER"
  /\ result.op = "getFileSize"
  /\ result.value = <<255, 255, 255, 255>>

-----------------------------------------------------------------------------
(* The pixel-data offset *)

\* the unsigned little-endian b is at least n, for n below 65536
AtLeast(b, n) == (\E k \in 3..Len(b) : b[k] # 0) \/ U16(b) >= n

\* the file holds the file header and the whole record that its size tag declares
WholeHeaders ==
  /\ HasSizeTag
  /\ src.len >= BITMAPFILEHEADERLENGTH + TableLength(TableVariant(src.tag))

\* C13 (as claimed): whenever getOffset() is called on the document of a file
\* that holds both headers whole, the offset it returns is at least 14 plus the
\* declared length of the selected variant.
C13_OffsetInvariant ==
  (constructed /\ WholeHeaders /\ result.op = "getOffset")
    => AtLeast(result.value, BITMAPFILEHEADERLENGTH + TableLength(bitmap_header.variant))

-----------------------------------------------------------------------------
(* Compression *)

\* the enumerators of enum Compression
CompressionTags == (0..6) \cup {11, 12, 13}

\* the wrapped record has a compression member and the read that filled the
\* record reached past it
CompressionWasRead ==
  /\ HasMember(Fields(impl, bitmap_header.variant), "compression")
  /\ bitmap_header.gcount >= SizeOf(BITMAPCOREHEADER) + 4

\* C14 (as claimed): in every document of a file that holds both headers whole
\* and whose record has a compression member read from the file, the member
\* holds one of the ten enumerators.
C14_CompressionEnumerated ==
  (constructed /\ WholeHeaders /\ CompressionWasRead)
    => Member(Fields(impl, bitmap_header.variant), bitmap_header.image, "compression")
         \in {LE32(c) : c \in CompressionTags}

-----------------------------------------------------------------------------
(* The document object *)

-----------------------------------------------------------------------------
(* Order of the stages *)

\* the place of each constructor position in the order of the body
Rank ==
  [Start |-> 0, Opened |-> 1, FileHeaderRead |-> 2, FileHeaderParsed |-> 3,
   SizePeeked |-> 4, SoughtBack |-> 5, DibHeaderParsed |-> 6, Done |-> 7]

\* C16: every step that moves the constructor either moves it to the next
\* position of the body or fails it, so the stages run in the order file-header
\* read, magic validation, size peek, record read, finish, each at most once;
\* the positions of the DIB header stage are reached only with a file header
\* that passed isValid; after a failure the position stays failed and the
\* stream is not read or moved again.
C16_ForwardOnly ==
  /\ [][pc' # pc => /\ pc # "Failed"
                    /\ pc' = "Failed" \/ Rank[pc'] = Rank[pc] + 1]_vars
  /\ [](pc \in {"FileHeaderParsed", "SizePeeked", "SoughtBack", "DibHeaderParsed", "Done"}
          => isValid(file_header))
  /\ [][pc = "Failed" => (pc' = "Failed" /\ pos' = pos /\ err' = err)]_vars

\* the parse of a file with 14 bytes or more failed at magic validation, after
\* the file header read and before any DIB stage
C16_Witness ==
  /\ pc = "Failed"
  /\ err = MsgMagic(impl)
  /\ pos = BITMAPFILEHEADERLENGTH
  /\ header_size = << >>

-----------------------------------------------------------------------------
(* The stream handle *)

\* C17: in every terminal state, the success and each failure alike, the
\* std::ifstream holds no open handle.
C17_HandleReleased == Terminal => ~is_open

\* a parse that had opened the stream and read from it ended with the unknown
\* size failure, or with success, and the handle is closed
C17_Witness ==
  /\ Terminal
  /\ pos >= BITMAPFILEHEADERLENGTH
  /\ err \in {MsgSize(impl), ""}
  /\ file_header = << >>
  /\ ~is_open

-----------------------------------------------------------------------------
(* The layout of the file header *)

\* bytes a..b (0-based, inclusive) of the file
FileBytes(a, b) == [j \in 1..(b - a + 1) |-> Byte(src, a + j - 1)]

\* the first and last file byte of the member that each getter returns
GetterBytes ==
  [getFileType |-> <<0, 1>>, getFileSize |-> <<2, 5>>, getReserved1 |-> <<6, 7>>,
   getReserved2 |-> <<8, 9>>, getOffset |-> <<10, 13>>]

\* C18: when the file has 14 bytes or more, the read of the file header
\* consumes exactly 14 bytes and leaves file_type, file_size, reserved1,
\* reserved2 and offset holding bytes 0-1, 2-5, 6-7, 8-9 and 10-13 in file
\* order (the little-endian image of their values), and each getter of the
\* constructed object returns exactly the bytes of its member.
C18_FileHeaderLayout ==
  /\ (pc = "FileHeaderRead" /\ HasFileHeader) =>
       /\ pos = BITMAPFILEHEADERLENGTH
       /\ Len(file_header) = BITMAPFILEHEADERLENGTH
       /\ \A g \in DOMAIN FileHeaderGetters :
            Member(BITMAPFILEHEADER, file_header, FileHeaderGetters[g])
              = FileBytes(GetterBytes[g][1], GetterBytes[g][2])
  /\ (constructed /\ HasFileHeader /\ result.op \in DOMAIN FileHeaderGetters) =>
       result.value = FileBytes(GetterBytes[result.op][1], GetterBytes[result.op][2])

\* getOffset() returned 54 for a file whose bytes 10..13 are 36 00 00 00
C18_Witness ==
  /\ constructed
  /\ src.off = <<54, 0, 0, 0>>
  /\ result.op = "getOffset"
  /\ result.value = <<54, 0, 0, 0>>

-----------------------------------------------------------------------------
(* The colour table *)

\* the colors member of the wrapped record, zero for a record that has none
ColorsUsed ==
  IF HasMember(Fields(impl, bitmap_header.variant), "colors")
    THEN Member(Fields(impl, bitmap_header.variant), bitmap_header.image, "colors")
    ELSE LE32(0)

\* C19 (as claimed): a colour table made for the header of a file that holds
\* both headers whole has colors_used entries when colors_used is not 0, and
\* 2^bitsPerPixel entries when colors_used is 0 and bitsPerPixel is 8 or less.
C19_ColorTableSize ==
  (constructed /\ WholeHeaders /\ result.op = "createColorTable" /\ ~result.fault) =>
     /\ ColorsUsed # LE32(0) => LE32(Len(result.value)) = ColorsUsed
     /\ (ColorsUsed = LE32(0) /\ result.arg <= 8) => Len(result.value) = 2 ^ result.arg

\* C20 (as claimed): createColorTable for a bitsPerPixel above 8 returns a table
\* with no entries and does not fail.
C20_HighDepthEmptyTable ==
  (result.op = "createColorTable" /\ result.arg > 8) =>
     (result.value = << >> /\ ~result.fault)

-----------------------------------------------------------------------------
(* The movement of the stream position *)

\* C24: the position decreases in one step only, the seek that follows the
\* read of the size tag, and then by exactly 4, from 18 to 14; every read made
\* after the file header read starts at 14 or later, so no byte before 14 is
\* read twice; once the seek is past the position never decreases again.
C24_CursorMonotone ==
  /\ [][pos' < pos => (/\ pc = "SizePeeked"
                       /\ pc' = "SoughtBack"
                       /\ pos' = pos - 4
                       /\ pos' = BITMAPFILEHEADERLENGTH)]_vars
  /\ [][(pos' > pos /\ pc # "Opened") => pos >= BITMAPFILEHEADERLENGTH]_vars
  /\ [][(pc \in {"SoughtBack", "DibHeaderParsed", "Done", "Failed"}) => (pos' >= pos)]_vars

\* the seek has taken the stream back from 18 to 14 and the record read has
\* then moved it forward again
C24_Witness ==
  /\ pc = "DibHeaderParsed"
  /\ HasSizeTag
  /\ ~failbit
  /\ pos = BITMAPFILEHEADERLENGTH + BITMAPINFOHEADERLENGTH

-----------------------------------------------------------------------------
(* The colour table of the document *)

\* C25: in every constructed object color_table is null, whatever
\* bits_per_pixel and colors the header holds, getColorTable() returns that null
\* pointer, and the stream never stood past the end of the declared DIB header
\* (nor, before a record type was selected, past the size tag).
C25_ColorTableAbsent ==
  /\ constructed =>
       /\ color_table = << >>
       /\ pos <= BITMAPFILEHEADERLENGTH + TableLength(bitmap_header.variant)
  /\ (constructed /\ result.op = "getColorTable") => result.value = << >>
  /\ bitmap_header.variant = "none" => pos <= BITMAPFILEHEADERLENGTH + 4

\* getColorTable() returned null on the object of a whole INFO file whose
\* bits_per_pixel and colors are not 0
C25_Witness ==
  /\ constructed
  /\ bitmap_header.variant = "BITMAPINFOHEADER"
  /\ pos = BITMAPFILEHEADERLENGTH + BITMAPINFOHEADERLENGTH
  /\ Member(BITMAPCOREHEADER, bitmap_header.image, "bits_per_pixel") # <<0, 0>>
  /\ ColorsUsed # LE32(0)
  /\ result.op = "getColorTable"
  /\ result.value = << >>
=============================================================================
